---- MODULE Spec2Model ----
(***************************************************************************)
(* The task scheduling core of scriptZero as a state machine.              *)
(*                                                                         *)
(*   TS  engine/task_scheduler.py        TaskScheduler                     *)
(*   IS  core/scheduler.py               IntelligentScheduler/ResourcePool *)
(*   WF  core/scheduler.py               WorkflowScheduler                 *)
(*   CH  engine/task_chain_scheduler.py  TaskChainScheduler                *)
(*   AS  engine/scheduler/async_scheduler.py  AsyncScheduler               *)
(*   EH  engine/error_handler.py         ErrorHandler                      *)
(*                                                                         *)
(* The components share no state.  Init picks the component a             *)
(* behaviour is about (sut); the variables of the others keep their        *)
(* constructor values.                                                     *)
(*                                                                         *)
(* All of them run on an asyncio event loop: a coroutine runs without      *)
(* interruption up to an await that suspends.  Acquiring a free            *)
(* asyncio.Lock and awaiting a coroutine that does not itself suspend do   *)
(* not suspend, so an action below is the code between two suspensions.    *)
(***************************************************************************)
EXTENDS Integers, Sequences, FiniteSets, TLC

\* ------------------------------------------------------------------ bounds
NT == 3            \* task ids of the TaskScheduler behaviours
NTFull == 2        \* ids submitted with every combination of inputs
MaxRetriesTS == 1  \* largest max_retries a TaskScheduler task is submitted with
MaxDeps == 1       \* largest number of dependency ids of one submitted task
MaxConcurrentTS == 2 \* largest TaskScheduler(max_concurrent=...)
MaxResubmits == 1  \* submissions of an id that is already registered

NI == 3            \* tasks added to the IntelligentScheduler
WorkflowLen == 2   \* task configs of one add_workflow call
MaxConcurrentIS == 1 \* resource_pool.max_concurrent

NA == 3            \* task ids of the AsyncScheduler behaviours
MaxConcurrentAS == 2 \* AsyncScheduler(max_concurrent=...)

MaxRetriesEH == 3  \* largest max_retries given to attempt_with_recovery
MaxDelayEH == 2    \* largest retry_delay
NExc == 2          \* distinct exceptions operation raises
NVal == 1          \* distinct values operation returns

NC == 3            \* chain task ids
MaxChainLen == 3   \* longest task_ids list given to execute_chain
MaxRuns == 1       \* execute_chain calls that start a run
MaxRejects == 1    \* execute_chain calls made while a chain is running

TIds == 1..NT
FullIds == 1..NTFull
CIds == 1..NC
AIds == 1..NA
IIds == 1..NI
DepChoices(ids) == {d \in SUBSET ids : Cardinality(d) <= MaxDeps}

\* TaskPriority values used by the submissions (NORMAL, HIGH)
PrioNormal == 2
PrioHigh == 3
Priorities == {PrioNormal, PrioHigh}

VARIABLES
  sut,          \* "TS" | "IS" | "WF" | "CH" | "AS" | "EH": the component this
                \* behaviour exercises
  \* ---- TaskScheduler
  ts_task,      \* id -> the Task object (status "none": not constructed yet)
  ts_pending,   \* keys of pending_tasks
  ts_completed, \* keys of completed_tasks
  ts_running,   \* keys of running_tasks
  ts_queue,     \* task_queue, kept in heap order (head = heappop's result)
  ts_exec,      \* id -> state of the asyncio.Task running _execute_task_with_timeout
  ts_cb,        \* ids whose done callback has created _on_task_complete, not yet run
  ts_lock,      \* holder of _lock, or Free
  ts_wait,      \* coroutines suspended in _lock.acquire() inside _queue_task
  ts_clock,     \* time.time() as a submission counter
  ts_invoked,   \* id -> number of times task.coroutine() was called      (history)
  ts_cancelled, \* ids for which cancel_task returned True before any start (history)
  ts_max,       \* max_concurrent
  ts_ret,       \* what the call made in the last step gave its caller    (history)
  ts_left       \* id -> the ids left in task_queue when id was started   (history)

VARIABLES
  \* ---- IntelligentScheduler
  is_task,      \* id -> the Task object (status "none": not added yet)
  is_next,      \* number of add_task calls so far + 1 (the fresh uuid)
  is_queue,     \* task_queue in heap order
  is_running,   \* running_tasks
  is_completed, \* keys of completed_tasks
  is_failed,    \* keys of failed_tasks
  is_current,   \* resource_pool.current_tasks
  is_on,        \* scheduler_running
  is_exec,      \* id -> state of the asyncio.Task running _execute_task
  is_invoked,   \* id -> number of times task.func was called             (history)
  is_cancelled, \* ids for which cancel_task returned True before a start (history)
  is_sched,     \* the created asyncio.Tasks not yet run, in creation order
  is_batch,     \* id -> the ids admitted by the tick that admitted id    (history)
  is_named      \* id -> the ids of the tasks its workflow config names as
                \* 'dependencies'                                          (history)

isvars == <<is_task, is_next, is_queue, is_running, is_completed, is_failed,
            is_current, is_on, is_exec, is_invoked, is_cancelled, is_sched, is_batch,
            is_named>>

VARIABLES
  \* ---- TaskChainScheduler
  ch_task,      \* id -> the ChainTask object (status "none": never added)
  ch_chain,     \* keys of chain_tasks
  ch_done,      \* keys of completed_chain_tasks
  ch_running,   \* _running_chain
  ch_stop,      \* _stop_event.is_set()
  ch_ids,       \* task_ids of the execute_chain call in progress (or the last one)
  ch_policy,    \* its error_handling
  ch_idx,       \* position in task_ids of the step being executed
  ch_pc,        \* "idle" | "step" (suspended in a step) | "done" (returned)
  ch_runs,      \* execute_chain calls so far
  ch_log,       \* ch_log[i]: what the run did at position i of task_ids   (history)
  ch_failrep,   \* the steps on_chain_fail was called with, in order        (history)
  ch_rejected   \* execute_chain calls that raised RuntimeError             (history)

chvars == <<ch_task, ch_chain, ch_done, ch_running, ch_stop, ch_ids, ch_policy,
            ch_idx, ch_pc, ch_runs, ch_log, ch_failrep, ch_rejected>>

tsvars == <<ts_task, ts_pending, ts_completed, ts_running, ts_queue, ts_exec,
            ts_cb, ts_lock, ts_wait, ts_clock, ts_invoked, ts_cancelled,
            ts_max, ts_ret, ts_left>>

VARIABLES
  \* ---- AsyncScheduler
  as_task,      \* id -> the Task object (status "none": not submitted yet)
  as_queue,     \* task_queue, in the order get_nowait returns its entries
  as_running,   \* keys of running_tasks
  as_completed, \* keys of completed_tasks
  as_exec,      \* id -> state of the asyncio.Task running _execute_task
  as_cb,        \* ids whose done callback is scheduled and has not run yet
  as_on,        \* the run_scheduler loop is running
  as_ret        \* what the call made in the last step gave its caller    (history)

asvars == <<as_task, as_queue, as_running, as_completed, as_exec, as_cb, as_on, as_ret>>

VARIABLES
  \* ---- ErrorHandler.attempt_with_recovery, one call
  eh_pc,        \* "idle" | "try" | "sleep" | "returned" | "raised"
  eh_max,       \* max_retries
  eh_delay,     \* retry_delay
  eh_strategy,  \* recovery_strategy is a key of recovery_strategies
  eh_attempt,   \* the loop variable
  eh_last,      \* last_exception (0: None)
  eh_out,       \* the value returned or the exception raised (0: none yet)
  eh_calls,     \* number of times operation was called                    (history)
  eh_slept,     \* the arguments of asyncio.sleep, in order                 (history)
  eh_log        \* the severities handle_error was called with, in order    (history)

ehvars == <<eh_pc, eh_max, eh_delay, eh_strategy, eh_attempt, eh_last, eh_out,
            eh_calls, eh_slept, eh_log>>

vars == <<sut, tsvars, isvars, chvars, asvars, ehvars>>

\* the elements of a sequence
RECURSIVE SeqToSet(_)
SeqToSet(s) == IF s = <<>> THEN {} ELSE {Head(s)} \cup SeqToSet(Tail(s))

\* ============================================================ TaskScheduler
Free == <<"free", 0>>

\* no call returned or raised in the last step
NoRet == [op |-> "none", value |-> FALSE, outcome |-> "none", status |-> "none"]

NoTask == [status |-> "none", retry_count |-> 0, max_retries |-> 0, deps |-> {},
           priority |-> 0, created_at |-> 0, has_timeout |-> FALSE,
           result |-> FALSE, error |-> FALSE]

NewTask(deps, prio, mr, to, now) ==
  [status |-> "pending", retry_count |-> 0, max_retries |-> mr, deps |-> deps,
   priority |-> prio, created_at |-> now, has_timeout |-> to,
   result |-> FALSE, error |-> FALSE]

\* _are_dependencies_met over a task table and completed_tasks
AreDependenciesMet(tasks, completed, t) ==
  \A d \in tasks[t].deps : d \in completed /\ tasks[d].status = "completed"

\* (mutant) the heap entry with the priority value not negated
HeapKeyLowFirst(tasks, t) == <<tasks[t].priority, tasks[t].created_at, t>>

\* the heap entry (-priority.value, created_at, id, task)
HeapKey(tasks, t) == <<0 - tasks[t].priority, tasks[t].created_at, t>>

KeyLess(a, b) ==
  \/ a[1] < b[1]
  \/ a[1] = b[1] /\ a[2] < b[2]
  \/ a[1] = b[1] /\ a[2] = b[2] /\ a[3] < b[3]

RECURSIVE HeapPush(_, _, _)
HeapPush(tasks, q, t) ==
  IF q = <<>> THEN <<t>>
  ELSE IF KeyLess(HeapKey(tasks, t), HeapKey(tasks, Head(q)))
       THEN <<t>> \o q
       ELSE <<Head(q)>> \o HeapPush(tasks, Tail(q), t)

\* _try_start_next_task followed by _start_task: the id started, or 0
StartedBy(q, running) ==
  IF Cardinality(running) >= ts_max THEN 0
  ELSE IF q = <<>> THEN 0
  ELSE IF Head(q) \in running THEN 0
  ELSE Head(q)

\* _queue_task once _lock is acquired: QUEUED, heappush, _try_start_next_task
QueueTask(t) ==
  LET tasks1 == [ts_task EXCEPT ![t].status = "queued"]
      q1 == HeapPush(tasks1, ts_queue, t)
      s == StartedBy(q1, ts_running)
  IN  IF s = 0
      THEN /\ ts_task' = tasks1
           /\ ts_queue' = q1
           /\ UNCHANGED <<ts_running, ts_exec, ts_left>>
      ELSE /\ ts_task' = [tasks1 EXCEPT ![s].status = "running"]
           /\ ts_queue' = Tail(q1)
           /\ ts_left' = [ts_left EXCEPT ![s] = SeqToSet(Tail(q1))]
           /\ ts_running' = ts_running \cup {s}
           /\ ts_exec' = [ts_exec EXCEPT ![s] = "created"]

\* submit_task (through schedule_task, which builds the Task): registers the task
\* and evaluates it while holding _lock.  With the dependencies met, _queue_task
\* awaits the same _lock and the coroutine suspends for good.
TSSubmit(t, deps, prio, mr, to) ==
  /\ sut = "TS"
  /\ ts_ret' = NoRet
  /\ UNCHANGED <<ts_max, ts_left>>
  /\ ts_lock = Free
  /\ ts_task[t].status = "none"
  /\ LET tasks1 == [ts_task EXCEPT ![t] = NewTask(deps, prio, mr, to, ts_clock)]
     IN  /\ ts_task' = tasks1
         /\ ts_pending' = ts_pending \cup {t}
         /\ ts_clock' = ts_clock + 1
         /\ IF AreDependenciesMet(tasks1, ts_completed, t)
            THEN /\ ts_lock' = <<"submit", t>>
                 /\ ts_wait' = ts_wait \cup {<<"submit", t>>}
            ELSE UNCHANGED <<ts_lock, ts_wait>>
  /\ UNCHANGED <<sut, asvars, ehvars, isvars, chvars, ts_completed, ts_running, ts_queue, ts_exec, ts_cb,
                 ts_invoked, ts_cancelled>>

\* submit_task with the id of a task that is already registered.  The new Task
\* object takes the place of the old one in pending_tasks, whatever the old one's
\* state; the rest is submit_task.  (Resubmission is followed for a task that
\* pending_tasks alone refers to: PENDING, in no queue, never started.)
TSResubmit(t, deps, prio, mr, to) ==
  /\ sut = "TS"
  /\ ts_ret' = NoRet
  /\ UNCHANGED <<ts_max, ts_left>>
  /\ ts_lock = Free
  /\ ts_clock <= NTFull + MaxResubmits
  /\ t \in ts_pending
  /\ ts_task[t].status = "pending"
  /\ ts_exec[t] = "none"
  /\ LET tasks1 == [ts_task EXCEPT ![t] = NewTask(deps, prio, mr, to, ts_clock)]
     IN  /\ ts_task' = tasks1
         /\ ts_clock' = ts_clock + 1
         /\ IF AreDependenciesMet(tasks1, ts_completed, t)
            THEN /\ ts_lock' = <<"submit", t>>
                 /\ ts_wait' = ts_wait \cup {<<"submit", t>>}
            ELSE UNCHANGED <<ts_lock, ts_wait>>
  /\ UNCHANGED <<sut, asvars, ehvars, isvars, chvars, ts_pending, ts_completed, ts_running, ts_queue,
                 ts_exec, ts_cb, ts_invoked, ts_cancelled>>

\* The caller gives up a submit_task that does not return (asyncio cancels the
\* coroutine, e.g. wait_for's timeout): leaving "async with" releases _lock.
TSAbandonSubmit(t) ==
  /\ sut = "TS"
  /\ ts_ret' = NoRet
  /\ UNCHANGED <<ts_max, ts_left>>
  /\ ts_lock = <<"submit", t>>
  /\ ts_lock' = Free
  /\ ts_wait' = ts_wait \ {<<"submit", t>>}
  /\ UNCHANGED <<sut, asvars, ehvars, isvars, chvars, ts_task, ts_pending, ts_completed, ts_running, ts_queue,
                 ts_exec, ts_cb, ts_clock, ts_invoked, ts_cancelled>>

\* _evaluate_task awaited for a registered PENDING task by a coroutine that does
\* not hold _lock: the one way _queue_task gets past its "async with".
TSEvaluate(t) ==
  /\ sut = "TS"
  /\ ts_ret' = NoRet
  /\ UNCHANGED ts_max
  /\ ts_lock = Free
  /\ t \in ts_pending
  /\ ts_task[t].status = "pending"
  /\ ts_exec[t] = "none"
  /\ AreDependenciesMet(ts_task, ts_completed, t)
  /\ QueueTask(t)
  /\ UNCHANGED <<sut, asvars, ehvars, isvars, chvars, ts_pending, ts_completed, ts_cb, ts_lock, ts_wait,
                 ts_clock, ts_invoked, ts_cancelled>>

\* the event loop first runs the created asyncio.Task: task.coroutine() is called
TSExecBegin(t) ==
  /\ sut = "TS"
  /\ ts_ret' = NoRet
  /\ UNCHANGED <<ts_max, ts_left>>
  /\ ts_exec[t] = "created"
  /\ ts_exec' = [ts_exec EXCEPT ![t] = "active"]
  /\ ts_invoked' = [ts_invoked EXCEPT ![t] = @ + 1]
  /\ UNCHANGED <<sut, asvars, ehvars, isvars, chvars, ts_task, ts_pending, ts_completed, ts_running, ts_queue,
                 ts_cb, ts_lock, ts_wait, ts_clock, ts_cancelled>>

\* _execute_task_with_timeout, the work item returned
TSExecOk(t) ==
  /\ sut = "TS"
  /\ ts_ret' = NoRet
  /\ UNCHANGED <<ts_max, ts_left>>
  /\ ts_exec[t] = "active"
  /\ ts_task' = [ts_task EXCEPT ![t].result = TRUE, ![t].status = "completed"]
  /\ ts_exec' = [ts_exec EXCEPT ![t] = "done"]
  /\ ts_cb' = ts_cb \cup {t}
  /\ UNCHANGED <<sut, asvars, ehvars, isvars, chvars, ts_pending, ts_completed, ts_running, ts_queue, ts_lock,
                 ts_wait, ts_clock, ts_invoked, ts_cancelled>>

\* _execute_task_with_timeout, wait_for raised asyncio.TimeoutError
TimeoutOutcome(task) == [task EXCEPT !.status = "timeout", !.error = TRUE]

TSExecTimeout(t) ==
  /\ sut = "TS"
  /\ ts_ret' = NoRet
  /\ UNCHANGED <<ts_max, ts_left>>
  /\ ts_exec[t] = "active"
  /\ ts_task[t].has_timeout
  /\ ts_task' = [ts_task EXCEPT ![t] = TimeoutOutcome(ts_task[t])]
  /\ ts_exec' = [ts_exec EXCEPT ![t] = "done"]
  /\ ts_cb' = ts_cb \cup {t}
  /\ UNCHANGED <<sut, asvars, ehvars, isvars, chvars, ts_pending, ts_completed, ts_running, ts_queue, ts_lock,
                 ts_wait, ts_clock, ts_invoked, ts_cancelled>>

\* (mutant) the retry test off by one
RetryAllowedOffByOne(task) == task.retry_count <= task.max_retries

\* "except Exception": whether the attempt is retried
RetryAllowed(task) == task.retry_count < task.max_retries

\* the retry branch from "async with self._lock" on: re-register, _evaluate_task
RetryResubmit(t, tasks1) ==
  /\ ts_pending' = ts_pending \cup {t}
  /\ IF AreDependenciesMet(tasks1, ts_completed, t)
     THEN /\ ts_lock' = <<"exec", t>>
          /\ ts_wait' = ts_wait \cup {<<"exec", t>>}
          /\ ts_exec' = [ts_exec EXCEPT ![t] = "blocked"]
          /\ UNCHANGED ts_cb
     ELSE /\ ts_exec' = [ts_exec EXCEPT ![t] = "done"]
          /\ ts_cb' = ts_cb \cup {t}
          /\ UNCHANGED <<ts_lock, ts_wait>>

\* _execute_task_with_timeout, the work item raised
TSExecRaise(t) ==
  /\ sut = "TS"
  /\ ts_ret' = NoRet
  /\ UNCHANGED <<ts_max, ts_left>>
  /\ ts_exec[t] = "active"
  /\ IF RetryAllowed(ts_task[t])
     THEN LET tasks1 == [ts_task EXCEPT ![t].error = TRUE,
                                        ![t].retry_count = @ + 1,
                                        ![t].status = "pending"]
          IN  /\ ts_task' = tasks1
              /\ IF ts_lock = Free
                 THEN RetryResubmit(t, tasks1)
                 ELSE /\ ts_exec' = [ts_exec EXCEPT ![t] = "retrying"]
                      /\ UNCHANGED <<ts_pending, ts_lock, ts_wait, ts_cb>>
     ELSE /\ ts_task' = [ts_task EXCEPT ![t].error = TRUE, ![t].status = "failed"]
          /\ ts_exec' = [ts_exec EXCEPT ![t] = "done"]
          /\ ts_cb' = ts_cb \cup {t}
          /\ UNCHANGED <<ts_pending, ts_lock, ts_wait>>
  /\ UNCHANGED <<sut, asvars, ehvars, isvars, chvars, ts_completed, ts_running, ts_queue, ts_clock, ts_invoked,
                 ts_cancelled>>

\* the retry branch gets _lock after waiting for another holder
TSRetryAcquire(t) ==
  /\ sut = "TS"
  /\ ts_ret' = NoRet
  /\ UNCHANGED <<ts_max, ts_left>>
  /\ ts_exec[t] = "retrying"
  /\ ts_lock = Free
  /\ RetryResubmit(t, ts_task)
  /\ UNCHANGED <<sut, asvars, ehvars, isvars, chvars, ts_task, ts_completed, ts_running, ts_queue, ts_clock,
                 ts_invoked, ts_cancelled>>

\* _on_task_complete with _check_dependent_tasks: the first dependent whose
\* dependencies are met is handed to _queue_task, which awaits the held _lock.
TSOnTaskComplete(t) ==
  /\ sut = "TS"
  /\ ts_ret' = NoRet
  /\ UNCHANGED <<ts_max, ts_left>>
  /\ t \in ts_cb
  /\ ts_lock = Free
  /\ ts_cb' = ts_cb \ {t}
  /\ ts_running' = ts_running \ {t}
  /\ IF t \in ts_pending
     THEN /\ ts_pending' = ts_pending \ {t}
          /\ ts_completed' = ts_completed \cup {t}
          /\ IF \E d \in ts_pending \ {t} :
                   /\ t \in ts_task[d].deps
                   /\ AreDependenciesMet(ts_task, ts_completed \cup {t}, d)
             THEN /\ ts_lock' = <<"complete", t>>
                  /\ ts_wait' = ts_wait \cup {<<"complete", t>>}
             ELSE UNCHANGED <<ts_lock, ts_wait>>
     ELSE UNCHANGED <<ts_pending, ts_completed, ts_lock, ts_wait>>
  /\ UNCHANGED <<sut, asvars, ehvars, isvars, chvars, ts_task, ts_queue, ts_exec, ts_clock, ts_invoked, ts_cancelled>>

\* cancel_task: what it returns for the current state
CancelReturns(t) == t \in ts_running \/ t \in ts_pending

\* cancel_task.  task.cancel() ends an execution that has not finished; the
\* status is set only for a task registered in pending_tasks.
TSCancel(t) ==
  /\ sut = "TS"
  /\ ts_ret' = [op |-> "cancel", value |-> CancelReturns(t),
                outcome |-> "returned", status |-> ts_task[t].status]
  /\ UNCHANGED <<ts_max, ts_left>>
  /\ ts_lock = Free
  /\ ts_task[t].status # "none"
  /\ IF t \in ts_running
     THEN /\ IF ts_exec[t] \in {"created", "active", "retrying"}
             THEN /\ ts_exec' = [ts_exec EXCEPT ![t] = "cancelled"]
                  /\ ts_cb' = ts_cb \cup {t}
             ELSE UNCHANGED <<ts_exec, ts_cb>>
          /\ ts_task' = IF t \in ts_pending
                        THEN [ts_task EXCEPT ![t].status = "cancelled"]
                        ELSE ts_task
          /\ UNCHANGED ts_cancelled
     ELSE IF t \in ts_pending
     THEN /\ ts_task' = [ts_task EXCEPT ![t].status = "cancelled"]
          /\ ts_cancelled' = IF ts_invoked[t] = 0 /\ ts_exec[t] = "none"
                             THEN ts_cancelled \cup {t} ELSE ts_cancelled
          /\ UNCHANGED <<ts_exec, ts_cb>>
     ELSE UNCHANGED <<ts_task, ts_exec, ts_cb, ts_cancelled>>
  /\ UNCHANGED <<sut, asvars, ehvars, isvars, chvars, ts_pending, ts_completed, ts_running, ts_queue, ts_lock,
                 ts_wait, ts_clock, ts_invoked>>

\* wait_for_task: what one pass of its "while True" does
WaitOutcome(t) ==
  IF t \in ts_completed
  THEN IF ts_task[t].status = "failed" THEN "raised" ELSE "returned"
  ELSE IF t \in ts_running THEN "waiting"
  ELSE IF t \in ts_pending THEN "waiting"
  ELSE "raised"

\* wait_for_task(t) for a submitted task looks at the task (the call, or the
\* pass after a wait).  It takes no lock and changes nothing.
TSWaitFor(t) ==
  /\ sut = "TS"
  /\ ts_task[t].status # "none"
  /\ ts_ret' = [op |-> "wait", value |-> ts_task[t].result,
                outcome |-> WaitOutcome(t), status |-> ts_task[t].status]
  /\ ts_ret' # ts_ret
  /\ UNCHANGED <<sut, asvars, ehvars, isvars, chvars, ts_task, ts_pending, ts_completed, ts_running,
                 ts_queue, ts_exec, ts_cb, ts_lock, ts_wait, ts_clock, ts_invoked,
                 ts_cancelled, ts_max, ts_left>>

TSInitWith(max_concurrent) ==
  /\ ts_task = [t \in TIds |-> NoTask]
  /\ ts_pending = {}
  /\ ts_completed = {}
  /\ ts_running = {}
  /\ ts_queue = <<>>
  /\ ts_exec = [t \in TIds |-> "none"]
  /\ ts_cb = {}
  /\ ts_lock = Free
  /\ ts_wait = {}
  /\ ts_clock = 1
  /\ ts_invoked = [t \in TIds |-> 0]
  /\ ts_cancelled = {}
  /\ ts_max = max_concurrent
  /\ ts_ret = NoRet
  /\ ts_left = [t \in TIds |-> {}]

TSInit == TSInitWith(MaxConcurrentTS)

\* the steps, other than submissions, of tasks without timeout and retries
TSPlainSteps ==
  \/ \E t \in TIds : TSAbandonSubmit(t)
  \/ \E t \in TIds : TSEvaluate(t)
  \/ \E t \in TIds : TSExecBegin(t)
  \/ \E t \in TIds : TSExecOk(t)
  \/ \E t \in TIds : TSExecRaise(t)
  \/ \E t \in TIds : TSOnTaskComplete(t)
  \/ \E t \in TIds : TSCancel(t)
  \/ \E t \in TIds : TSWaitFor(t)

\* all the steps other than submissions
TSSteps ==
  \/ TSPlainSteps
  \/ \E t \in TIds : TSExecTimeout(t)
  \/ \E t \in TIds : TSRetryAcquire(t)

\* two tasks, submitted with every combination of inputs
TSNext ==
  \/ \E t \in FullIds, deps \in DepChoices(FullIds), prio \in Priorities,
        mr \in 0..MaxRetriesTS, to \in BOOLEAN : TSSubmit(t, deps, prio, mr, to)
  \/ TSSteps

\* the same, and an id that is registered may be submitted again (the new task
\* without retries or timeout)
TSNextAgain ==
  \/ TSNext
  \/ \E t \in FullIds, deps \in DepChoices(FullIds), prio \in Priorities :
        TSResubmit(t, deps, prio, 0, FALSE)

\* NT tasks without dependencies, retries or timeout (no attempt of theirs times
\* out or is retried), told apart by their priority only; ids are opaque, so the
\* tasks are named in the order of their submission
TSNextOne ==
  \/ \E prio \in Priorities :
        ts_clock \in TIds /\ TSSubmit(ts_clock, {}, prio, 0, FALSE)
  \/ TSPlainSteps


\* ===================================================== IntelligentScheduler
\* An id no add_task call returns (uuid4 values are fresh): a dependency on it
\* names a task the scheduler does not know.
UnknownId == 0

NoITask == [status |-> "none", deps |-> {}, priority |-> 0, created_at |-> 0,
            result |-> FALSE, error |-> FALSE]

\* (mutant) the status test of _are_dependencies_satisfied left out
AreDependenciesSatisfiedNoStatus(tasks, t) ==
  \A d \in tasks[t].deps : d \in IIds

\* _are_dependencies_satisfied
AreDependenciesSatisfied(tasks, t) ==
  \A d \in tasks[t].deps : d \in IIds /\ tasks[d].status = "completed"

\* Task.heap_key and Task.__lt__
ISHeapKey(tasks, t) == <<tasks[t].priority, tasks[t].created_at, t>>

RECURSIVE ISHeapPush(_, _, _)
ISHeapPush(tasks, q, t) ==
  IF q = <<>> THEN <<t>>
  ELSE IF KeyLess(ISHeapKey(tasks, t), ISHeapKey(tasks, Head(q)))
       THEN <<t>> \o q
       ELSE <<Head(q)>> \o ISHeapPush(tasks, Tail(q), t)

RECURSIVE ISPushAll(_, _, _)
ISPushAll(tasks, q, ids) ==
  IF ids = {} THEN q
  ELSE LET t == CHOOSE x \in ids : TRUE
       IN  ISPushAll(tasks, ISHeapPush(tasks, q, t), ids \ {t})

\* add_task, on a task table and a queue: the task is recorded under the fresh
\* id t, and queued when its dependencies are satisfied
AddTask(tasks, q, t, prio, deps) ==
  LET tasks1 == [tasks EXCEPT ![t] = [status |-> "pending", deps |-> deps,
                                      priority |-> prio, created_at |-> t,
                                      result |-> FALSE, error |-> FALSE]]
  IN  [tasks |-> tasks1,
       queue |-> IF AreDependenciesSatisfied(tasks1, t)
                 THEN ISHeapPush(tasks1, q, t) ELSE q]

ISAddTask(prio, deps) ==
  /\ sut = "IS"
  /\ is_next \in IIds
  /\ LET a == AddTask(is_task, is_queue, is_next, prio, deps)
     IN  /\ is_task' = a.tasks
         /\ is_queue' = a.queue
  /\ is_next' = is_next + 1
  /\ UNCHANGED <<sut, asvars, ehvars, tsvars, chvars, is_named, is_running, is_completed, is_failed, is_current,
                 is_on, is_exec, is_invoked, is_cancelled, is_sched, is_batch>>

\* WorkflowScheduler.add_workflow.  The configs are named by their position in
\* 'tasks'; config k gets the id base + k - 1.  TaskId: the id a name stands for.
TaskId(base, name) == base + name - 1

\* actual_deps of config k: the named dependencies found in task_mapping, which
\* holds the names of the configs before k
ActualDeps(cfg, base, k) == {TaskId(base, j) : j \in {n \in cfg[k] : n < k}}

\* the "for task_config in tasks" loop from config k on
RECURSIVE AddWorkflowFrom(_, _, _, _, _)
AddWorkflowFrom(k, cfg, base, tasks, q) ==
  IF k > Len(cfg) THEN [tasks |-> tasks, queue |-> q]
  ELSE LET a == AddTask(tasks, q, TaskId(base, k), 0, ActualDeps(cfg, base, k))
       IN  AddWorkflowFrom(k + 1, cfg, base, a.tasks, a.queue)

\* the 'tasks' lists given to add_workflow
WorkflowConfigs ==
  UNION {[1..n -> DepChoices(1..n)] : n \in 1..WorkflowLen}

\* cfg[k]: the names in 'dependencies' of the k-th task config
ISAddWorkflow(cfg) ==
  /\ sut = "WF"
  /\ is_next + Len(cfg) - 1 \in IIds
  /\ LET a == AddWorkflowFrom(1, cfg, is_next, is_task, is_queue)
     IN  /\ is_task' = a.tasks
         /\ is_queue' = a.queue
  /\ is_next' = is_next + Len(cfg)
  /\ is_named' = [t \in IIds |->
                    IF t \in is_next..(is_next + Len(cfg) - 1)
                    THEN {TaskId(is_next, j) : j \in cfg[t - is_next + 1]}
                    ELSE is_named[t]]
  /\ UNCHANGED <<sut, asvars, ehvars, tsvars, chvars, is_running, is_completed, is_failed, is_current,
                 is_on, is_exec, is_invoked, is_cancelled, is_sched, is_batch>>

\* start() / stop()
ISStart ==
  /\ sut \in {"IS", "WF"}
  /\ ~is_on
  /\ is_on' = TRUE
  /\ UNCHANGED <<sut, asvars, ehvars, tsvars, chvars, is_named, is_task, is_next, is_queue, is_running, is_completed,
                 is_failed, is_current, is_exec, is_invoked, is_cancelled, is_sched,
                 is_batch>>

ISStop ==
  /\ sut \in {"IS", "WF"}
  /\ is_on
  /\ is_on' = FALSE
  /\ UNCHANGED <<sut, asvars, ehvars, tsvars, chvars, is_named, is_task, is_next, is_queue, is_running, is_completed,
                 is_failed, is_current, is_exec, is_invoked, is_cancelled, is_sched,
                 is_batch>>

\* ResourcePool.check_availability; sampleOk: the psutil samples are under the ceilings
CheckAvailability(sampleOk, current) ==
  IF ~sampleOk THEN FALSE
  ELSE IF current >= MaxConcurrentIS THEN FALSE
  ELSE TRUE

\* The "while self.task_queue" loop of one tick: the tasks admitted, in pop order.
\* q: what is left to pop, running: running_tasks so far, k: index of the pop.
RECURSIVE TickAdmit(_, _, _, _)
TickAdmit(q, running, samples, k) ==
  IF q = <<>> THEN <<>>
  ELSE IF Head(q) \notin running /\ CheckAvailability(samples[k], is_current)
       THEN <<Head(q)>> \o TickAdmit(Tail(q), running \cup {Head(q)}, samples, k + 1)
       ELSE TickAdmit(Tail(q), running, samples, k + 1)

\* the tasks one tick puts back (remaining_tasks), as the queue they form
RECURSIVE TickRemaining(_, _, _, _)
TickRemaining(q, running, samples, k) ==
  IF q = <<>> THEN <<>>
  ELSE IF Head(q) \notin running /\ CheckAvailability(samples[k], is_current)
       THEN TickRemaining(Tail(q), running \cup {Head(q)}, samples, k + 1)
       ELSE <<Head(q)>> \o TickRemaining(Tail(q), running, samples, k + 1)

\* one pass of _scheduler_loop: pop everything, admit, push the rest back, create
\* one asyncio.Task per admitted task
ISTick(samples) ==
  /\ sut \in {"IS", "WF"}
  /\ is_on
  /\ is_queue # <<>>
  /\ LET runnable == TickAdmit(is_queue, is_running, samples, 1)
         admitted == SeqToSet(runnable)
     IN  /\ is_running' = is_running \cup admitted
         /\ is_queue' = TickRemaining(is_queue, is_running, samples, 1)
         /\ is_exec' = [t \in IIds |-> IF t \in admitted THEN "scheduled" ELSE is_exec[t]]
         /\ is_sched' = is_sched \o runnable
         /\ is_batch' = [t \in IIds |-> IF t \in admitted THEN admitted ELSE is_batch[t]]
  /\ UNCHANGED <<sut, asvars, ehvars, tsvars, chvars, is_named, is_task, is_next, is_completed, is_failed, is_current,
                 is_on, is_invoked, is_cancelled>>

\* ResourcePool.acquire / release
Acquire(current) == current + 1
Release(current) == IF current - 1 > 0 THEN current - 1 ELSE 0

\* _execute_task up to the await of task.func: RUNNING, on_task_start, acquire(),
\* the call.  The event loop runs the asyncio.Tasks in the order of their
\* creation.  startRaises: on_task_start is set and raises; it is called before
\* the try block, so the exception ends _execute_task there ("crashed").
ISBegin(t, startRaises) ==
  /\ sut \in {"IS", "WF"}
  /\ is_exec[t] = "scheduled"
  /\ is_sched # <<>>
  /\ t = Head(is_sched)
  /\ is_sched' = Tail(is_sched)
  /\ is_task' = [is_task EXCEPT ![t].status = "running"]
  /\ (startRaises => sut = "IS")
  /\ IF startRaises
     THEN /\ is_exec' = [is_exec EXCEPT ![t] = "crashed"]
          /\ UNCHANGED <<is_current, is_invoked>>
     ELSE /\ is_exec' = [is_exec EXCEPT ![t] = "active"]
          /\ is_current' = Acquire(is_current)
          /\ is_invoked' = [is_invoked EXCEPT ![t] = @ + 1]
  /\ UNCHANGED <<sut, asvars, ehvars, tsvars, chvars, is_named, is_next, is_queue, is_running, is_completed, is_failed,
                 is_on, is_cancelled, is_batch>>

\* _check_dependent_tasks: the PENDING dependents that are now satisfied
Promoted(tasks, t) ==
  {d \in IIds : /\ tasks[d].status = "pending"
                /\ t \in tasks[d].deps
                /\ AreDependenciesSatisfied(tasks, d)}

\* the try/except of _execute_task: the task table when "finally" is entered
ExecuteOutcome(tasks, t, ok, completeRaises) ==
  IF ~ok THEN [tasks EXCEPT ![t].error = TRUE, ![t].status = "failed"]
  ELSE IF completeRaises
  THEN [tasks EXCEPT ![t].result = TRUE, ![t].error = TRUE, ![t].status = "failed"]
  ELSE [tasks EXCEPT ![t].result = TRUE, ![t].status = "completed"]

\* _execute_task from the return (ok) or the exception (timeout included) of
\* task.func to its end: status, the callbacks, release(), the registries,
\* _check_dependent_tasks.  completeRaises: on_task_complete is set and raises; it
\* is called inside the try block, after task.result and COMPLETED are assigned.
ISFinish(t, ok, completeRaises) ==
  /\ sut \in {"IS", "WF"}
  /\ is_exec[t] = "active"
  /\ (completeRaises => ok /\ sut = "IS")
  /\ LET tasks1 == ExecuteOutcome(is_task, t, ok, completeRaises)
         completed == tasks1[t].status = "completed"
     IN  /\ is_task' = tasks1
         /\ is_queue' = ISPushAll(tasks1, is_queue, Promoted(tasks1, t))
         /\ is_completed' = IF completed THEN is_completed \cup {t} ELSE is_completed
         /\ is_failed' = IF completed THEN is_failed ELSE is_failed \cup {t}
  /\ is_exec' = [is_exec EXCEPT ![t] = "done"]
  /\ is_current' = Release(is_current)
  /\ is_running' = is_running \ {t}
  /\ UNCHANGED <<sut, asvars, ehvars, tsvars, chvars, is_named, is_next, is_on, is_invoked, is_cancelled, is_sched,
                 is_batch>>

\* cancel_task: what it returns
ISCancelReturns(t) == is_task[t].status = "pending"

ISCancel(t) ==
  /\ sut \in {"IS", "WF"}
  /\ is_task[t].status # "none"
  /\ IF ISCancelReturns(t)
     THEN /\ is_task' = [is_task EXCEPT ![t].status = "cancelled"]
          /\ is_cancelled' = IF is_exec[t] = "none"
                             THEN is_cancelled \cup {t} ELSE is_cancelled
     ELSE UNCHANGED <<is_task, is_cancelled>>
  /\ UNCHANGED <<sut, asvars, ehvars, tsvars, chvars, is_named, is_next, is_queue, is_running, is_completed, is_failed,
                 is_current, is_on, is_exec, is_invoked, is_sched, is_batch>>

ISInit ==
  /\ is_task = [t \in IIds |-> NoITask]
  /\ is_next = 1
  /\ is_queue = <<>>
  /\ is_running = {}
  /\ is_completed = {}
  /\ is_failed = {}
  /\ is_current = 0
  /\ is_on = FALSE
  /\ is_exec = [t \in IIds |-> "none"]
  /\ is_invoked = [t \in IIds |-> 0]
  /\ is_cancelled = {}
  /\ is_sched = <<>>
  /\ is_batch = [t \in IIds |-> {}]
  /\ is_named = [t \in IIds |-> {}]

IPriorities == {0, 1}

ISNext ==
  \/ \E prio \in IPriorities, deps \in DepChoices((1..(is_next - 1)) \cup {UnknownId}) :
        ISAddTask(prio, deps)
  \/ ISStart
  \/ ISStop
  \/ \E samples \in [1..Len(is_queue) -> BOOLEAN] : ISTick(samples)
  \/ \E t \in IIds, startRaises \in BOOLEAN : ISBegin(t, startRaises)
  \/ \E t \in IIds, ok \in BOOLEAN, completeRaises \in BOOLEAN :
        ISFinish(t, ok, completeRaises)
  \/ \E t \in IIds : ISCancel(t)

\* WorkflowScheduler: the tasks come from add_workflow; no callback is set
WFNext ==
  \/ \E cfg \in WorkflowConfigs : ISAddWorkflow(cfg)
  \/ ISStart
  \/ ISStop
  \/ \E samples \in [1..Len(is_queue) -> BOOLEAN] : ISTick(samples)
  \/ \E t \in IIds : ISBegin(t, FALSE)
  \/ \E t \in IIds, ok \in BOOLEAN : ISFinish(t, ok, FALSE)
  \/ \E t \in IIds : ISCancel(t)


\* ======================================================= TaskChainScheduler
NoCTask == [status |-> "none", deps |-> {}, enabled |-> FALSE]

Policies == {"continue", "stop", "retry"}

\* task_ids lists.  Ids are opaque keys and a list names each step once, so the
\* steps are named by their position: <<1>>, <<1, 2>>, ...  (an id that was never
\* added stands for an id unknown to the scheduler).
ChainLists == {[i \in 1..n |-> i] : n \in 1..MaxChainLen}

\* (mutant) the dependency test always passes
CheckDependenciesSatisfiedAlways(tasks, done, t) == TRUE

\* _check_dependencies_satisfied
CheckDependenciesSatisfied(tasks, done, t) ==
  \A d \in tasks[t].deps : d \in done /\ tasks[d].status = "completed"

\* The for loop of execute_chain from position i up to the next suspension: the
\* positions it passes (task missing or disabled) or marks SKIPPED, then either the
\* step it starts (RUNNING, suspended in _execute_game_script_pair) or its end.
RECURSIVE Advance(_, _, _, _, _, _)
Advance(i, ids, tasks, chain, done, log) ==
  IF i > Len(ids) \/ ch_stop
  THEN [pc |-> "done", idx |-> i, tasks |-> tasks, log |-> log]
  ELSE LET t == ids[i]
       IN  IF t \notin chain \/ ~tasks[t].enabled
           THEN Advance(i + 1, ids, tasks, chain, done, Append(log, "passed"))
           ELSE IF ~CheckDependenciesSatisfied(tasks, done, t)
           THEN Advance(i + 1, ids, [tasks EXCEPT ![t].status = "skipped"], chain,
                        done, Append(log, "skipped"))
           ELSE [pc |-> "step", idx |-> i,
                 tasks |-> [tasks EXCEPT ![t].status = "running"], log |-> log]

\* add_chain_task
CHAdd(t, deps, en) ==
  /\ sut = "CH"
  /\ ch_task[t].status = "none"
  /\ ch_task' = [ch_task EXCEPT ![t] = [status |-> "pending", deps |-> deps,
                                        enabled |-> en]]
  /\ ch_chain' = ch_chain \cup {t}
  /\ UNCHANGED <<sut, asvars, ehvars, tsvars, isvars, ch_done, ch_running, ch_stop, ch_ids, ch_policy,
                 ch_idx, ch_pc, ch_runs, ch_log, ch_failrep, ch_rejected>>

\* stop_chain (the inner TaskScheduler has no running task to cancel)
CHStop ==
  /\ sut = "CH"
  /\ ~ch_stop
  /\ ch_stop' = TRUE
  /\ UNCHANGED <<sut, asvars, ehvars, tsvars, isvars, ch_task, ch_chain, ch_done, ch_running, ch_ids,
                 ch_policy, ch_idx, ch_pc, ch_runs, ch_log, ch_failrep, ch_rejected>>

\* execute_chain from its call to its first suspension (or its return)
CHExecute(ids, policy) ==
  /\ sut = "CH"
  /\ ~ch_running
  /\ ch_runs < MaxRuns
  /\ LET a == Advance(1, ids, ch_task, ch_chain, ch_done, <<>>)
     IN  /\ ch_task' = a.tasks
         /\ ch_log' = a.log
         /\ ch_idx' = a.idx
         /\ ch_pc' = a.pc
         /\ ch_running' = (a.pc = "step")
  /\ ch_ids' = ids
  /\ ch_policy' = policy
  /\ ch_runs' = ch_runs + 1
  /\ ch_failrep' = <<>>
  /\ UNCHANGED <<sut, asvars, ehvars, tsvars, isvars, ch_chain, ch_done, ch_stop, ch_rejected>>

\* (mutant) the RuntimeError raised inside the try block: "finally" resets the flag
RunningAfterRejectFinally(running) == FALSE

\* _running_chain after "raise RuntimeError": the raise comes before the try block
RunningAfterReject(running) == running

\* execute_chain called while a chain is running: RuntimeError
CHExecuteRejected(ids, policy) ==
  /\ sut = "CH"
  /\ ch_running
  /\ ch_rejected < MaxRejects
  /\ ch_rejected' = ch_rejected + 1
  /\ ch_running' = RunningAfterReject(ch_running)
  /\ UNCHANGED <<sut, asvars, ehvars, tsvars, isvars, ch_task, ch_chain, ch_done, ch_stop, ch_ids,
                 ch_policy, ch_idx, ch_pc, ch_runs, ch_log, ch_failrep>>

\* (mutant) the policy test left out: any failed step ends the chain
StopsChainAnyPolicy(policy, ok) == ~ok

\* "if not success and error_handling == 'stop'": the chain ends at this step
StopsChain(policy, ok) == ~ok /\ policy = "stop"

\* _check_dependent_tasks: the chain tasks it sets READY
ReadyAfter(tasks, chain, done, t) ==
  {d \in chain : t \in tasks[d].deps /\
                 \A x \in tasks[d].deps : x \in done /\ tasks[x].status = "completed"}

\* The running step ends (ok: _execute_game_script_pair returned; otherwise it
\* raised): _execute_single_chain_task's bookkeeping, the policy test, then
\* _check_dependent_tasks and the loop up to its next suspension.
CHStepDone(ok) ==
  /\ sut = "CH"
  /\ ch_pc = "step"
  /\ LET t == ch_ids[ch_idx]
         tasks1 == [ch_task EXCEPT ![t].status = IF ok THEN "completed" ELSE "failed"]
         chain1 == IF ok THEN ch_chain \ {t} ELSE ch_chain
         done1 == IF ok THEN ch_done \cup {t} ELSE ch_done
         log1 == Append(ch_log, IF ok THEN "ok" ELSE "failed")
     IN  /\ ch_chain' = chain1
         /\ ch_done' = done1
         /\ IF StopsChain(ch_policy, ok)
            THEN /\ ch_task' = tasks1
                 /\ ch_log' = log1
                 /\ ch_failrep' = Append(ch_failrep, t)
                 /\ ch_pc' = "done"
                 /\ ch_running' = FALSE
                 /\ UNCHANGED ch_idx
            ELSE LET ready == ReadyAfter(tasks1, chain1, done1, t)
                     tasks2 == [d \in CIds |-> IF d \in ready
                                               THEN [tasks1[d] EXCEPT !.status = "ready"]
                                               ELSE tasks1[d]]
                     a == Advance(ch_idx + 1, ch_ids, tasks2, chain1, done1, log1)
                 IN  /\ ch_task' = a.tasks
                     /\ ch_log' = a.log
                     /\ ch_idx' = a.idx
                     /\ ch_pc' = a.pc
                     /\ ch_running' = (a.pc = "step")
                     /\ UNCHANGED ch_failrep
  /\ UNCHANGED <<sut, asvars, ehvars, tsvars, isvars, ch_stop, ch_ids, ch_policy, ch_runs, ch_rejected>>

CHInit ==
  /\ ch_task = [t \in CIds |-> NoCTask]
  /\ ch_chain = {}
  /\ ch_done = {}
  /\ ch_running = FALSE
  /\ ch_stop = FALSE
  /\ ch_ids = <<>>
  /\ ch_policy = "continue"
  /\ ch_idx = 0
  /\ ch_pc = "idle"
  /\ ch_runs = 0
  /\ ch_log = <<>>
  /\ ch_failrep = <<>>
  /\ ch_rejected = 0

CHNext ==
  \/ \E t \in CIds, deps \in DepChoices(CIds), en \in BOOLEAN : CHAdd(t, deps, en)
  \/ CHStop
  \/ \E ids \in ChainLists, policy \in Policies : CHExecute(ids, policy)
  \/ \E ids \in ChainLists, policy \in Policies : CHExecuteRejected(ids, policy)
  \/ \E ok \in BOOLEAN : CHStepDone(ok)

\* =========================================================== AsyncScheduler
NoATask == [status |-> "none", deps |-> {}, priority |-> 0,
            result |-> FALSE, error |-> FALSE]

\* no call returned or raised in the last step
NoARet == [op |-> "none", outcome |-> "none"]

\* the queue entry (-task.priority, task.id, task)
ASKey(tasks, t) == <<0 - tasks[t].priority, t>>

ASKeyLess(a, b) == a[1] < b[1] \/ (a[1] = b[1] /\ a[2] < b[2])

\* PriorityQueue.put
RECURSIVE ASPut(_, _, _)
ASPut(tasks, q, t) ==
  IF q = <<>> THEN <<t>>
  ELSE IF ASKeyLess(ASKey(tasks, t), ASKey(tasks, Head(q)))
       THEN <<t>> \o q
       ELSE <<Head(q)>> \o ASPut(tasks, Tail(q), t)

\* _can_run_task
CanRunTask(tasks, completed, running, t) ==
  /\ \A d \in tasks[t].deps : d \in completed /\ tasks[d].status = "completed"
  /\ t \notin running
  /\ Cardinality(running) < MaxConcurrentAS

\* the second loop of _process_ready_tasks over the drained entries q: the tasks
\* it starts, in order (running: running_tasks as _start_task extends it)
RECURSIVE ProcessReady(_, _, _, _)
ProcessReady(q, tasks, completed, running) ==
  IF q = <<>> THEN <<>>
  ELSE IF CanRunTask(tasks, completed, running, Head(q))
       THEN <<Head(q)>> \o ProcessReady(Tail(q), tasks, completed, running \cup {Head(q)})
       ELSE ProcessReady(Tail(q), tasks, completed, running)

\* schedule_task / submit_task: the task goes on the queue
ASSubmit(t, prio, deps) ==
  /\ sut = "AS"
  /\ as_task[t].status = "none"
  /\ LET tasks1 == [as_task EXCEPT ![t] = [status |-> "pending", deps |-> deps,
                                           priority |-> prio, result |-> FALSE,
                                           error |-> FALSE]]
     IN  /\ as_task' = tasks1
         /\ as_queue' = ASPut(tasks1, as_queue, t)
  /\ as_ret' = NoARet
  /\ UNCHANGED <<sut, tsvars, isvars, chvars, ehvars, as_running, as_completed, as_exec,
                 as_cb, as_on>>

\* start(): creates the run_scheduler task, once
ASStart ==
  /\ sut = "AS"
  /\ as_on = "new"
  /\ as_on' = "running"
  /\ as_ret' = NoARet
  /\ UNCHANGED <<sut, tsvars, isvars, chvars, ehvars, as_task, as_queue, as_running,
                 as_completed, as_exec, as_cb>>

\* stop(): the loop of run_scheduler ends; the running tasks go on
ASStop ==
  /\ sut = "AS"
  /\ as_on = "running"
  /\ as_on' = "stopped"
  /\ as_ret' = NoARet
  /\ UNCHANGED <<sut, tsvars, isvars, chvars, ehvars, as_task, as_queue, as_running,
                 as_completed, as_exec, as_cb>>

\* one pass of run_scheduler: _process_ready_tasks drains the queue, starts what
\* _can_run_task allows and puts the rest back
ASTick ==
  /\ sut = "AS"
  /\ as_on = "running"
  /\ LET started == ProcessReady(as_queue, as_task, as_completed, as_running)
         ids == SeqToSet(started)
     IN  /\ ids # {}
         /\ as_task' = [t \in AIds |-> IF t \in ids
                                       THEN [as_task[t] EXCEPT !.status = "running"]
                                       ELSE as_task[t]]
         /\ as_queue' = SelectSeq(as_queue, LAMBDA t : t \notin ids)
         /\ as_running' = as_running \cup ids
         /\ as_exec' = [t \in AIds |-> IF t \in ids THEN "created" ELSE as_exec[t]]
  /\ as_ret' = NoARet
  /\ UNCHANGED <<sut, tsvars, isvars, chvars, ehvars, as_completed, as_cb, as_on>>

\* the event loop first runs the created asyncio.Task: task.coroutine() is called
ASExecBegin(t) ==
  /\ sut = "AS"
  /\ as_exec[t] = "created"
  /\ as_exec' = [as_exec EXCEPT ![t] = "active"]
  /\ as_ret' = NoARet
  /\ UNCHANGED <<sut, tsvars, isvars, chvars, ehvars, as_task, as_queue, as_running,
                 as_completed, as_cb, as_on>>

\* _execute_task: the coroutine returned (ok) or raised an Exception
ASExecEnd(t, ok) ==
  /\ sut = "AS"
  /\ as_exec[t] = "active"
  /\ as_task' = IF ok
                THEN [as_task EXCEPT ![t].result = TRUE, ![t].status = "completed"]
                ELSE [as_task EXCEPT ![t].error = TRUE, ![t].status = "failed"]
  /\ as_exec' = [as_exec EXCEPT ![t] = "done"]
  /\ as_cb' = as_cb \cup {t}
  /\ as_ret' = NoARet
  /\ UNCHANGED <<sut, tsvars, isvars, chvars, ehvars, as_queue, as_running, as_completed,
                 as_on>>

\* completed_tasks after _on_task_complete: the method does not touch it
CompletedAfter(completed, t) == completed

\* _on_task_complete, the done callback
ASOnTaskComplete(t) ==
  /\ sut = "AS"
  /\ t \in as_cb
  /\ as_cb' = as_cb \ {t}
  /\ as_running' = as_running \ {t}
  /\ as_completed' = CompletedAfter(as_completed, t)
  /\ as_ret' = NoARet
  /\ UNCHANGED <<sut, tsvars, isvars, chvars, ehvars, as_task, as_queue, as_exec, as_on>>

\* wait_for_task once the awaited asyncio.Task (if any) has ended
ASWaitOutcome(t) ==
  IF t \notin as_completed THEN "ValueError"
  ELSE IF as_task[t].status = "failed" THEN "raised"
  ELSE "returned"

\* wait_for_task for a task that is not being executed (a running one is awaited
\* first).  It changes nothing.
ASWaitFor(t) ==
  /\ sut = "AS"
  /\ as_task[t].status # "none"
  /\ as_exec[t] \notin {"created", "active"}
  /\ as_ret' = [op |-> "wait", outcome |-> ASWaitOutcome(t)]
  /\ as_ret' # as_ret
  /\ UNCHANGED <<sut, tsvars, isvars, chvars, ehvars, as_task, as_queue, as_running,
                 as_completed, as_exec, as_cb, as_on>>

\* cancel_task: a running task's asyncio.Task is cancelled (CancelledError is not
\* an Exception: _execute_task sets no status); anything else gives False
ASCancel(t) ==
  /\ sut = "AS"
  /\ as_task[t].status # "none"
  /\ IF t \in as_running /\ as_exec[t] \in {"created", "active"}
     THEN /\ as_exec' = [as_exec EXCEPT ![t] = "cancelled"]
          /\ as_cb' = as_cb \cup {t}
     ELSE UNCHANGED <<as_exec, as_cb>>
  /\ as_ret' = [op |-> "cancel",
                outcome |-> IF t \in as_running THEN "True" ELSE "False"]
  /\ as_ret' # as_ret
  /\ UNCHANGED <<sut, tsvars, isvars, chvars, ehvars, as_task, as_queue, as_running,
                 as_completed, as_on>>

ASInit ==
  /\ as_task = [t \in AIds |-> NoATask]
  /\ as_queue = <<>>
  /\ as_running = {}
  /\ as_completed = {}
  /\ as_exec = [t \in AIds |-> "none"]
  /\ as_cb = {}
  /\ as_on = "new"
  /\ as_ret = NoARet

ASNext ==
  \/ \E t \in AIds, prio \in IPriorities, deps \in DepChoices(AIds) :
        ASSubmit(t, prio, deps)
  \/ ASStart
  \/ ASStop
  \/ ASTick
  \/ \E t \in AIds : ASExecBegin(t)
  \/ \E t \in AIds, ok \in BOOLEAN : ASExecEnd(t, ok)
  \/ \E t \in AIds : ASOnTaskComplete(t)
  \/ \E t \in AIds : ASWaitFor(t)
  \/ \E t \in AIds : ASCancel(t)

\* ====================================== ErrorHandler.attempt_with_recovery
\* the exceptions operation raises and the values it returns, as small numbers
Exceptions == 1..NExc
Values == 1..NVal

\* the severity handle_error is called with
Severity(attempt, max_retries) == IF attempt < max_retries THEN "warning" ELSE "error"

\* (mutant) the delay without the exponential factor
BackoffFixed(retry_delay, attempt) == retry_delay

\* the argument of asyncio.sleep: retry_delay * (2 ** attempt)
Backoff(retry_delay, attempt) == retry_delay * (2 ^ attempt)

\* "for attempt in range(max_retries + 1)": whether the loop has a next value
HasNext(attempt, max_retries) == attempt + 1 < max_retries + 1

\* the call: last_exception = None, the loop starts with attempt 0 (the range is
\* not empty, max_retries being >= 0)
EHCall(max_retries, retry_delay, registered) ==
  /\ sut = "EH"
  /\ eh_pc = "idle"
  /\ eh_pc' = "try"
  /\ eh_max' = max_retries
  /\ eh_delay' = retry_delay
  /\ eh_strategy' = registered
  /\ eh_attempt' = 0
  /\ eh_last' = 0
  /\ UNCHANGED <<sut, tsvars, isvars, chvars, asvars, eh_out, eh_calls, eh_slept, eh_log>>

\* operation() returns v: "return" leaves the loop
EHAttemptReturns(v) ==
  /\ sut = "EH"
  /\ eh_pc = "try"
  /\ eh_calls' = eh_calls + 1
  /\ eh_out' = v
  /\ eh_pc' = "returned"
  /\ UNCHANGED <<sut, tsvars, isvars, chvars, asvars, eh_max, eh_delay, eh_strategy,
                 eh_attempt, eh_last, eh_slept, eh_log>>

\* operation() raises e: handle_error, then either the recovery function (when
\* registered; what it raises is logged and dropped) and the sleep, or, for the
\* last value of the range, the end of the loop and "raise last_exception"
EHAttemptRaises(e) ==
  /\ sut = "EH"
  /\ eh_pc = "try"
  /\ eh_calls' = eh_calls + 1
  /\ eh_last' = e
  /\ eh_log' = Append(eh_log, [exception |-> e,
                               severity |-> Severity(eh_attempt, eh_max),
                               recovery |-> eh_attempt < eh_max /\ eh_strategy])
  /\ IF eh_attempt < eh_max
     THEN /\ eh_slept' = Append(eh_slept, Backoff(eh_delay, eh_attempt))
          /\ eh_pc' = "sleep"
          /\ UNCHANGED eh_out
     ELSE /\ UNCHANGED eh_slept
          /\ IF HasNext(eh_attempt, eh_max)
             THEN eh_pc' = "next" /\ UNCHANGED eh_out
             ELSE eh_pc' = "raised" /\ eh_out' = e
  /\ UNCHANGED <<sut, tsvars, isvars, chvars, asvars, eh_max, eh_delay, eh_strategy,
                 eh_attempt>>

\* asyncio.sleep returns: the loop takes its next value, or ends
EHWake ==
  /\ sut = "EH"
  /\ eh_pc \in {"sleep", "next"}
  /\ IF HasNext(eh_attempt, eh_max)
     THEN /\ eh_attempt' = eh_attempt + 1
          /\ eh_pc' = "try"
          /\ UNCHANGED eh_out
     ELSE /\ eh_pc' = "raised"
          /\ eh_out' = eh_last
          /\ UNCHANGED eh_attempt
  /\ UNCHANGED <<sut, tsvars, isvars, chvars, asvars, eh_max, eh_delay, eh_strategy,
                 eh_last, eh_calls, eh_slept, eh_log>>

EHInit ==
  /\ eh_pc = "idle"
  /\ eh_max = 0
  /\ eh_delay = 0
  /\ eh_strategy = FALSE
  /\ eh_attempt = 0
  /\ eh_last = 0
  /\ eh_out = 0
  /\ eh_calls = 0
  /\ eh_slept = <<>>
  /\ eh_log = <<>>

EHNext ==
  \/ \E max_retries \in 0..MaxRetriesEH, retry_delay \in 1..MaxDelayEH,
        registered \in BOOLEAN : EHCall(max_retries, retry_delay, registered)
  \/ \E v \in Values : EHAttemptReturns(v)
  \/ \E e \in Exceptions : EHAttemptRaises(e)
  \/ EHWake

AllInit == TSInit /\ ISInit /\ CHInit /\ ASInit /\ EHInit
Init == sut \in {"TS", "IS", "WF", "CH", "AS", "EH"} /\ AllInit
Next == TSNextAgain \/ ISNext \/ WFNext \/ CHNext \/ ASNext \/ EHNext
Spec == Init /\ [][Next]_vars

\* the two dependency-driven schedulers, TaskScheduler and IntelligentScheduler
InitSched == sut \in {"TS", "IS"} /\ AllInit
SpecSched == InitSched /\ [][TSNext \/ ISNext]_vars

\* one component at a time
InitTS == sut = "TS" /\ AllInit
InitIS == sut = "IS" /\ AllInit
InitCH == sut = "CH" /\ AllInit
SpecTS == InitTS /\ [][TSNext]_vars
SpecTSAgain == InitTS /\ [][TSNextAgain]_vars

\* TaskScheduler(max_concurrent=1), as cli.py and TaskChainScheduler construct it
InitTSOne == sut = "TS" /\ TSInitWith(1) /\ ISInit /\ CHInit /\ ASInit /\ EHInit
SpecTSOne == InitTSOne /\ [][TSNextOne]_vars
SpecIS == InitIS /\ [][ISNext]_vars

\* a WorkflowScheduler: an IntelligentScheduler (its variables are the is_ ones)
\* whose tasks are added by add_workflow and that has no callbacks set
InitWF == sut = "WF" /\ AllInit
SpecWF == InitWF /\ [][WFNext]_vars
SpecCH == InitCH /\ [][CHNext]_vars

InitAS == sut = "AS" /\ AllInit
SpecAS == InitAS /\ [][ASNext]_vars

InitEH == sut = "EH" /\ AllInit
SpecEH == InitEH /\ [][EHNext]_vars

\* The event loop runs every coroutine that can run, and a work item that was
\* called ends (returns, raises or times out).  What callers do is not fair.
TSFairness ==
  \A t \in TIds :
    /\ WF_vars(TSExecBegin(t))
    /\ WF_vars(TSExecOk(t) \/ TSExecTimeout(t) \/ TSExecRaise(t))
    /\ WF_vars(TSRetryAcquire(t))
    /\ WF_vars(TSOnTaskComplete(t))
SpecTSFair == InitTS /\ [][TSNext]_vars /\ TSFairness

\* ================================================================== claims

\* C1: a task's status is RUNNING only if every id in its dependencies names a
\* task whose status is COMPLETED (IntelligentScheduler and TaskScheduler).
C1_RunningOnlyAfterDependencies ==
  /\ \A t \in IIds : is_task[t].status = "running" =>
        \A d \in is_task[t].deps : d \in IIds /\ is_task[d].status = "completed"
  /\ \A t \in TIds : ts_task[t].status = "running" =>
        \A d \in ts_task[t].deps : ts_task[d].status = "completed"

\* C1 witness: a task with a dependency is RUNNING
C1_Witness ==
  \E t \in IIds : is_task[t].status = "running" /\ is_task[t].deps # {}

\* C2: no coroutine waits for _lock while it is itself the holder of _lock
\* (so submit_task of a task whose dependencies are satisfied returns).
C2_NoSelfWaitOnLock ==
  \A c \in ts_wait : ts_lock # c

\* C3: once cancel_task returned True for a task that had not started, the
\* task's status is CANCELLED and its work item is never invoked.
C3_CancelledStaysCancelled ==
  /\ \A t \in is_cancelled : is_task[t].status = "cancelled" /\ is_invoked[t] = 0
  /\ \A t \in ts_cancelled : ts_task[t].status = "cancelled" /\ ts_invoked[t] = 0

\* C4: a task with a dependency that was cancelled before it started, or that
\* ended FAILED, CANCELLED or TIMEOUT, is neither in the ready queue nor started.
C4_DeadDependencyBlocks ==
  /\ \A t \in IIds : \A d \in is_task[t].deps \cap IIds :
        (d \in is_cancelled \/ is_task[d].status \in {"failed", "cancelled"}) =>
          /\ is_task[t].status # "running"
          /\ is_exec[t] = "none"
          /\ t \notin SeqToSet(is_queue)
  /\ \A t \in TIds : \A d \in ts_task[t].deps :
        (d \in ts_cancelled \/ ts_task[d].status \in {"failed", "cancelled", "timeout"}) =>
          /\ ts_task[t].status # "running"
          /\ ts_exec[t] = "none"
          /\ t \notin SeqToSet(ts_queue)

\* C5: the number of tasks executing at the same time is at most max_concurrent.
C5_ConcurrencyBounded ==
  Cardinality({t \in IIds : is_exec[t] = "active"}) <= MaxConcurrentIS

\* C6: retry_count <= max_retries in every state, the work item is invoked at most
\* max_retries + 1 times, and an attempt that raises with retry_count = max_retries
\* sets the status to FAILED.
C6_RetryBudget ==
  /\ [](\A t \in TIds : /\ ts_task[t].retry_count <= ts_task[t].max_retries
                        /\ ts_invoked[t] <= ts_task[t].max_retries + 1)
  /\ [][\A t \in TIds :
          (/\ ts_exec[t] = "active"
           /\ ts_exec'[t] \in {"done", "blocked", "retrying"}
           /\ ts_task'[t].status \notin {"completed", "timeout"}
           /\ ts_task[t].retry_count = ts_task[t].max_retries)
          => ts_task'[t].status = "failed"]_vars

\* C6 witness: an attempt raised with the budget used up and the task is FAILED
C6_Witness ==
  \E t \in TIds : /\ ts_task[t].status = "failed"
                  /\ ts_invoked[t] = 1
                  /\ ts_task[t].retry_count = ts_task[t].max_retries

\* C7: a started task whose attempt raised and was given a retry eventually ends
\* (FAILED if every attempt raises; it is never left waiting for the retry).
C7_RaisingTaskEndsFailed ==
  \A t \in TIds :
    (ts_task[t].status = "pending" /\ ts_task[t].retry_count > 0)
      ~> (ts_task[t].status \in {"failed", "completed", "timeout", "cancelled"})

\* C8: a task ends TIMEOUT only when its retry budget is used up
\* (a timed-out attempt with retry_count < max_retries is retried).
C8_TimeoutOnlyWhenExhausted ==
  \A t \in TIds : ts_task[t].status = "timeout" =>
     ts_task[t].retry_count = ts_task[t].max_retries

\* positions of task_ids at which the run executed a step that failed
FailedAt == {i \in 1..Len(ch_log) : ch_log[i] = "failed"}

\* C9: under "stop", once the chain has ended on a failed step k, no later step was
\* executed, every later step of the list has status SKIPPED, and on_chain_fail
\* was called with step k.
C9_StopSkipsTheRest ==
  (ch_pc = "done" /\ ch_policy = "stop") =>
     \A k \in FailedAt :
        /\ Len(ch_log) = k
        /\ ch_failrep = <<ch_ids[k]>>
        /\ \A j \in (k + 1)..Len(ch_ids) :
              (ch_ids[j] \in ch_chain /\ ch_task[ch_ids[j]].enabled) =>
                 ch_task[ch_ids[j]].status = "skipped"

\* the positions after i whose step is registered, enabled and has all its
\* dependencies COMPLETED
Eligible(i) ==
  {j \in (i + 1)..Len(ch_ids) :
     /\ ch_ids[j] \in ch_chain
     /\ ch_task[ch_ids[j]].enabled
     /\ \A d \in ch_task[ch_ids[j]].deps :
           d \in ch_done /\ ch_task[d].status = "completed"}

\* C10: under "continue", when the running step fails (and stop_chain was not
\* called) the chain does not end there: the next step executed is the first later
\* step that is enabled with all its dependencies satisfied, and with no such step
\* the run visits every remaining position of the list before it returns.
C10_ContinueAfterFailure ==
  [][(/\ ch_pc = "step"
      /\ ch_policy = "continue"
      /\ ~ch_stop
      /\ Len(ch_log') > Len(ch_log)
      /\ ch_log'[Len(ch_log) + 1] = "failed")
     => IF Eligible(ch_idx) # {}
        THEN /\ ch_pc' = "step"
             /\ ch_idx' = CHOOSE j \in Eligible(ch_idx) :
                              \A k \in Eligible(ch_idx) : j <= k
             /\ ch_task'[ch_ids[ch_idx']].status = "running"
        ELSE /\ ch_pc' = "done"
             /\ Len(ch_log') = Len(ch_ids)
             /\ ch_failrep' = <<>>]_vars

\* C10 witness: under "continue" a step was executed after an earlier step failed
C10_Witness ==
  /\ ch_policy = "continue"
  /\ \E k \in FailedAt : \E j \in (k + 1)..Len(ch_log) : ch_log[j] \in {"ok", "failed"}

\* u comes before t in the order: higher priority value, then earlier created_at,
\* then smaller id
Precedes(u, t) ==
  \/ ts_task[u].priority > ts_task[t].priority
  \/ /\ ts_task[u].priority = ts_task[t].priority
     /\ ts_task[u].created_at < ts_task[t].created_at
  \/ /\ ts_task[u].priority = ts_task[t].priority
     /\ ts_task[u].created_at = ts_task[t].created_at
     /\ u < t

\* C14: when a task was started, no task left waiting in the ready queue came
\* before it in the order (priority value descending, created_at, id).
C14_StartInQueueOrder ==
  \A t \in TIds : \A u \in ts_left[t] : ~Precedes(u, t)

\* C14 witness: a task was started while another was left waiting, and the one
\* started was submitted later than the one left waiting
C14_Witness ==
  \E t \in TIds : \E u \in ts_left[t] :
     /\ ts_task[u].created_at < ts_task[t].created_at
     /\ ts_task[t].priority > ts_task[u].priority

\* C16: wait_for_task returns a value only for a task whose status is COMPLETED.
C16_WaitReturnsOnlyCompleted ==
  (ts_ret.op = "wait" /\ ts_ret.outcome = "returned") => ts_ret.status = "completed"

\* C19: no task in the pending set depends on itself or on a task that depends
\* on it (a submission closing a dependency cycle registers nothing).
C19_NoCycleInPending ==
  \A t \in ts_pending :
     /\ t \notin ts_task[t].deps
     /\ \A u \in ts_task[t].deps : t \notin ts_task[u].deps

\* C20: cancel_task returns False for a task whose status is CANCELLED, COMPLETED,
\* FAILED or TIMEOUT.
C20_CancelFalseWhenTerminal ==
  (/\ ts_ret.op = "cancel"
   /\ ts_ret.status \in {"cancelled", "completed", "failed", "timeout"})
     => ts_ret.value = FALSE

\* C15: when a dependency-free task admitted by a tick starts, no dependency-free
\* task admitted by the same tick with a greater priority value is still waiting
\* to start (the greater priority value starts first).
C15_HigherValueStartsFirst ==
  [][\A t \in IIds :
       (is_exec[t] = "scheduled" /\ is_exec'[t] = "active" /\ is_task[t].deps = {})
       => \A u \in is_batch[t] :
             (is_task[u].deps = {} /\ is_task[u].priority > is_task[t].priority)
             => is_exec[u] # "scheduled"]_vars

\* C17: a task whose status is COMPLETED, FAILED, CANCELLED (or TIMEOUT) keeps
\* its status, result and error in every later step.
C17_TerminalIsImmutable ==
  [][/\ \A t \in IIds :
          is_task[t].status \in {"completed", "failed", "cancelled"}
          => /\ is_task'[t].status = is_task[t].status
             /\ is_task'[t].result = is_task[t].result
             /\ is_task'[t].error = is_task[t].error
     /\ \A t \in TIds :
          ts_task[t].status \in {"completed", "failed", "cancelled", "timeout"}
          => /\ ts_task'[t].status = ts_task[t].status
             /\ ts_task'[t].result = ts_task[t].result
             /\ ts_task'[t].error = ts_task[t].error]_vars

\* C18: every task recorded by a scheduler names only dependencies the scheduler
\* knows (a submission naming an unknown id records nothing).
C18_NoUnknownDependencyRecorded ==
  /\ \A t \in IIds : is_task[t].status # "none" =>
        \A d \in is_task[t].deps : d \in IIds /\ is_task[d].status # "none"
  /\ \A t \in ts_pending :
        \A d \in ts_task[t].deps : ts_task[d].status # "none"

\* C11: under "retry", once a step has failed no later step of the list is
\* executed, and when the chain has ended on_chain_fail was called with that step.
C11_RetryFallsBackToStop ==
  ch_policy = "retry" =>
     \A k \in FailedAt :
        /\ \A j \in (k + 1)..Len(ch_log) : ch_log[j] \notin {"ok", "failed"}
        /\ ch_pc = "done" => ch_failrep = <<ch_ids[k]>>

\* the positions of task_ids the last step of the run has dealt with
NewPositions ==
  IF ch_runs' # ch_runs THEN 1..Len(ch_log') ELSE (Len(ch_log) + 1)..Len(ch_log')

\* C12: a step is executed only with every dependency recorded as COMPLETED; a
\* step with an unmet dependency is marked SKIPPED, on_chain_fail is not called
\* for it and the run goes on to the next position, whatever the policy.
C12_UnmetDependencySkips ==
  /\ [](/\ \A i \in 1..Len(ch_log) :
             ch_log[i] \in {"ok", "failed"} =>
               \A d \in ch_task[ch_ids[i]].deps :
                  d \in ch_done /\ ch_task[d].status = "completed"
        /\ ch_pc = "step" =>
               \A d \in ch_task[ch_ids[ch_idx]].deps :
                  d \in ch_done /\ ch_task[d].status = "completed")
  /\ [][\A i \in NewPositions :
          ch_log'[i] = "skipped" =>
            /\ ch_task'[ch_ids'[i]].status = "skipped"
            /\ \E d \in ch_task'[ch_ids'[i]].deps :
                   d \notin ch_done' \/ ch_task'[d].status # "completed"
            /\ Len(ch_failrep') = Len(ch_failrep) \/ ch_runs' # ch_runs
            /\ \/ ch_pc' = "step" /\ ch_idx' > i
               \/ ch_pc' = "done" /\ (Len(ch_log') = Len(ch_ids') \/ ch_stop)]_vars

\* C12 witness: under "stop" a step was skipped and a later step was executed
C12_Witness ==
  /\ ch_policy = "stop"
  /\ \E i \in 1..Len(ch_log) : \E j \in (i + 1)..Len(ch_log) :
        ch_log[i] = "skipped" /\ ch_log[j] \in {"ok", "failed"}

C29_StepStatusOnlyForward ==
  /\ [][\A t \in CIds :
          (ch_task[t].status \in {"skipped", "failed", "completed"} /\ ch_runs' = ch_runs)
            => ch_task'[t].status = ch_task[t].status]_vars
  /\ [](\A t \in ch_done : ch_task[t].status = "completed")

\* C25: in one tick of _scheduler_loop a ready task that is denied admission goes
\* back to the queue unchanged, and no task that was after it in the queue is
\* admitted in that tick, whatever the CPU and memory samples are.
C25_DeniedTaskKeepsItsPlace ==
  [][\A i \in 1..Len(is_queue) :
       (is_running' # is_running /\ is_queue[i] \notin is_running')
         => /\ is_queue[i] \in SeqToSet(is_queue')
            /\ is_task'[is_queue[i]] = is_task[is_queue[i]]
            /\ \A j \in 1..Len(is_queue) :
                  i < j => ~(is_queue[j] \notin is_running /\ is_queue[j] \in is_running')]_vars

\* C22: a submission whose id is the id of a task already in pending_tasks,
\* running_tasks or completed_tasks never replaces the record stored under that
\* id: the registered Task object (told by its created_at and its inputs) stays.
C22_SubmitNeverReplaces ==
  [][\A t \in ts_pending \cup ts_running \cup ts_completed :
       /\ ts_task'[t].created_at = ts_task[t].created_at
       /\ ts_task'[t].deps = ts_task[t].deps
       /\ ts_task'[t].priority = ts_task[t].priority]_vars

\* TaskScheduler(max_concurrent=1) with the event loop's fairness
SpecTSOneFair == InitTSOne /\ [][TSNextOne]_vars /\ TSFairness

\* C23: a task in the ready queue is eventually started once fewer than
\* max_concurrent tasks are running: when a running task finishes and frees a
\* slot, the queued task starts without any further submission.
C23_QueuedTaskStarts ==
  \A t \in TIds :
    (ts_task[t].status = "queued" /\ Cardinality(ts_running) < ts_max)
      ~> (ts_task[t].status # "queued")

\* C24: whenever a task has reached COMPLETED, every pending task whose
\* dependencies are then all COMPLETED is eventually placed in the ready queue.
C24_DependentsEventuallyQueued ==
  \A t \in TIds :
    (/\ t \in ts_pending
     /\ ts_task[t].status = "pending"
     /\ ts_task[t].deps # {}
     /\ \A d \in ts_task[t].deps : d \in ts_completed /\ ts_task[d].status = "completed")
      ~> (ts_task[t].status # "pending")

\* C26: a task whose function returned normally (its result is assigned) is
\* COMPLETED, recorded in completed_tasks and not in failed_tasks, and removed
\* from running_tasks, whatever on_task_start and on_task_complete do.
C26_NormalReturnEndsCompleted ==
  \A t \in IIds : is_task[t].result =>
    /\ is_task[t].status = "completed"
    /\ t \in is_completed
    /\ t \notin is_failed
    /\ t \notin is_running

C27_WorkflowDependenciesRespected ==
  \A t \in IIds :
    (is_exec[t] # "none" \/ is_task[t].status = "running") =>
      \A d \in is_named[t] \ {t} : is_task[d].status = "completed"

\* The event loop runs the created asyncio.Tasks and the done callbacks, a
\* coroutine that was called ends, and the run_scheduler loop keeps ticking.
ASFairness ==
  /\ WF_vars(ASTick)
  /\ \A t \in AIds :
       /\ WF_vars(ASExecBegin(t))
       /\ WF_vars(\E ok \in BOOLEAN : ASExecEnd(t, ok))
       /\ WF_vars(ASOnTaskComplete(t))
SpecASFair == InitAS /\ [][ASNext]_vars /\ ASFairness

\* C28: once the coroutine of a started task has returned normally, the task is
\* eventually recorded in completed_tasks with status COMPLETED (so wait_for_task
\* returns its result), and a queued task whose dependencies have all returned
\* normally eventually starts while the scheduler loop runs.
C28_CompletedEventuallyRecorded ==
  /\ \A t \in AIds :
       (as_task[t].status = "completed") ~> (t \in as_completed)
  /\ \A t \in AIds :
       (/\ as_task[t].status = "pending"
        /\ as_task[t].deps # {}
        /\ \A d \in as_task[t].deps : as_task[d].status = "completed")
         ~> (as_task[t].status # "pending" \/ as_on # "running")

\* attempt_with_recovery runs to its end: operation returns or raises, and
\* asyncio.sleep returns
EHFairness ==
  /\ WF_vars(\E v \in Values : EHAttemptReturns(v))
  /\ WF_vars(\E e \in Exceptions : EHAttemptRaises(e))
  /\ WF_vars(EHWake)
SpecEHFair == InitEH /\ [][EHNext]_vars /\ EHFairness

\* C30: attempt_with_recovery terminates for max_retries >= 0; it calls operation
\* at most max_retries + 1 times, returns at the first success without a further
\* attempt, raises the last exception when every attempt failed, and sleeps
\* retry_delay * 2^k before the retry that follows failed attempt k.
C30_AttemptWithRecovery ==
  /\ [](eh_calls <= eh_max + 1)
  /\ [](eh_pc = "returned" =>
          /\ Len(eh_log) = eh_calls - 1
          /\ Len(eh_slept) = eh_calls - 1)
  /\ [][(eh_pc \in {"returned", "raised"}) => (ehvars' = ehvars)]_vars
  /\ [](eh_pc = "raised" =>
          /\ eh_calls = eh_max + 1
          /\ Len(eh_log) = eh_calls
          /\ eh_out = eh_log[Len(eh_log)].exception
          /\ Len(eh_slept) = eh_max)
  /\ [](\A i \in 1..Len(eh_slept) :
          eh_slept[i] = IF i = 1 THEN eh_delay ELSE 2 * eh_slept[i - 1])
  /\ (eh_pc = "try") ~> (eh_pc \in {"returned", "raised"})

\* C30 witness: operation succeeded at its third call, after two sleeps
C30_Witness ==
  eh_pc = "returned" /\ eh_calls = 3 /\ Len(eh_slept) = 2 /\ eh_max = MaxRetriesEH
====
